---- MODULE Spec2Model ----
(***************************************************************************)
(* Model of the web-features / browser-compat-data / web-specs correlation *)
(* engine (main.mjs, latest variant): getBcdKey, isRelevantSpec,           *)
(* completeWithCompatFeatures, analyzeFeatures, getAllBcdKeys,             *)
(* traverseBCDFeatures, getBrowserSupport and analyzeBCD.                  *)
(*                                                                         *)
(* Strings are sequences of one-character strings, so that startsWith,     *)
(* split and the relational operators of JavaScript are computed and not   *)
(* assumed.  Optional properties are records with a `present` field.       *)
(***************************************************************************)
EXTENDS Integers, Sequences, FiniteSets, TLC

VARIABLES
    rSpec,          \* isRelevantSpec: the `spec` argument
    rUrls,          \* isRelevantSpec: the `urls` argument
    rResult,        \* isRelevantSpec: the value returned
    rPc,            \* "input" before the call, "done" after it
    bcdKeys,        \* the memoization map of getBcdKey: key string -> node
    gKey,           \* getBcdKey: the `key` argument of the last call
    gSupport,       \* getBcdKey: the `support` option of the last call
    gResult,        \* getBcdKey: outcome of the last call
    gCached,        \* getBcdKey: the last call found its key in bcdKeys
    sKeys,          \* getBrowserSupport: the `keys` argument
    sResult,        \* getBrowserSupport: outcome of the call
    webSpecs,       \* the specification catalog (web-specs/index.json)
    useSpecsProperty, \* analyzeFeatures: the option of that name
    worthChecking,  \* analyzeFeatures: anomaly -> baseline -> records
    pc,             \* analyzeFeatures: "loop", "done" or "aborted"
    idx,            \* analyzeFeatures: number of features taken so far
    desc,           \* analyzeFeatures: descriptor of the feature taken last
    specs,          \* analyzeFeatures: the specs linked to that feature
    mapped,         \* analyzeFeatures: what completeWithCompatFeatures
                    \* returned for each spec of webSpecs, for that feature
    error,          \* analyzeFeatures: the error that aborted the run
    cSupport,       \* codebase count: the browsers of desc.status.support
    cCodebases,     \* codebase count: the set `codebases`, once it is built
    keyOrder,       \* analyzeBCD: the keys of bcdKeys, in insertion order
    gen,            \* analyzeBCD: the suspended traverseBCDFeatures generator
    tKey,           \* analyzeBCD: the key the generator yielded last
    tResolved,      \* analyzeBCD: outcome of getBcdKey on that key
    tYielded,       \* analyzeBCD: the keys yielded so far
    abPc,           \* analyzeBCD: "traverse", "specs", "done" or "aborted"
    abIdx,          \* analyzeBCD: number of W3C specs taken so far
    specFeatures    \* analyzeBCD: the pseudo-features, in insertion order

vars == <<rSpec, rUrls, rResult, rPc, bcdKeys, gKey, gSupport, gResult,
          gCached, sKeys, sResult, webSpecs, useSpecsProperty, worthChecking,
          pc, idx, desc, specs, mapped, error, cSupport, cCodebases, keyOrder,
          gen, tKey, tResolved, tYielded, abPc, abIdx, specFeatures>>

relVars == <<rSpec, rUrls, rResult, rPc>>
bcdVars == <<bcdKeys, gKey, gSupport, gResult, gCached>>
supVars == <<sKeys, sResult>>
anaVars == <<webSpecs, useSpecsProperty, worthChecking, pc, idx, desc, specs, mapped,
             error>>
cbVars == <<cSupport, cCodebases>>
abVars == <<keyOrder, gen, tKey, tResolved, tYielded, abPc, abIdx, specFeatures>>

(***************************************************************************)
(* Bounds of the model                                                     *)
(***************************************************************************)
MaxUrlLen == 2      \* longest reference URL, in characters
MaxUrls == 2        \* longest list of reference URLs
MaxKeys == 3        \* longest list of keys handed to getBrowserSupport
MaxFeatures == 2    \* number of features in the catalog handed to analyzeFeatures
MaxPrior == 2       \* keys resolved by analyzeFeatures before analyzeBCD starts

(***************************************************************************)
(* Strings and JavaScript values                                           *)
(***************************************************************************)
UrlChars == {"a", "b"}

SeqsUpTo(S, n) == UNION {[1..k -> S] : k \in 0..n}

\* Reference URLs found in the catalogs: non-empty strings.
Urls == SeqsUpTo(UrlChars, MaxUrlLen) \ {<<>>}

\* URLs carried by the specification records that isRelevantSpec is tried on.
RefUrls == {<<"a">>, <<"a", "b">>, <<"b", "a">>}

JsUndefined == [type |-> "undefined"]
JsFalse == [type |-> "boolean"]
JsString(s) == [type |-> "string", val |-> s]

\* ToString(undefined), the search string that String.prototype.startsWith
\* uses when it is handed undefined.
UndefinedString == <<"u", "n", "d", "e", "f", "i", "n", "e", "d">>

\* An optional property: absent, or present with a value.
Absent == [present |-> FALSE]
Some(v) == [present |-> TRUE, val |-> v]

\* ToBoolean of the values isRelevantSpec can return.
Truthy(v) == v.type = "string" /\ Len(v.val) > 0

\* startsWith with a missing property read as the empty string.
StartsWithEmptyForMissing(url, opt) ==
    LET search == IF opt.present THEN opt.val ELSE <<>>
    IN  /\ Len(search) <= Len(url)
        /\ SubSeq(url, 1, Len(search)) = search

\* url.startsWith(opt), where opt is an optional string property.
StartsWith(url, opt) ==
    LET search == IF opt.present THEN opt.val ELSE UndefinedString
    IN  /\ Len(search) <= Len(url)
        /\ SubSeq(url, 1, Len(search)) = search

\* urls.find(url => url.startsWith(opt)): first match, or undefined.
RECURSIVE FindFrom(_, _, _)
FindFrom(urls, opt, i) ==
    IF i > Len(urls) THEN JsUndefined
    ELSE IF StartsWith(urls[i], opt) THEN JsString(urls[i])
    ELSE FindFrom(urls, opt, i + 1)

Find(urls, opt) == FindFrom(urls, opt, 1)

\* a || b
JsOr(a, b) == IF Truthy(a) THEN a ELSE b

\* cond && b, cond a boolean
JsAnd(cond, b) == IF cond THEN b ELSE JsFalse

(***************************************************************************)
(* isRelevantSpec                                                          *)
(***************************************************************************)
\* ref?.url
OptUrl(ref) == IF ref.present THEN Some(ref.val.url) ELSE Absent

\* isRelevantSpec without the test on series.currentSpecification.
isRelevantSpecNoCurrent(spec, urls) ==
    JsOr(Find(urls, OptUrl(spec.nightly)),
    JsOr(Find(urls, OptUrl(spec.release)),
    JsOr(Find(urls, Some(spec.url)),
    JsOr(Find(urls, spec.series.nightlyUrl),
         Find(urls, spec.series.releaseUrl)))))

isRelevantSpec(spec, urls) ==
    JsOr(Find(urls, OptUrl(spec.nightly)),
    JsOr(Find(urls, OptUrl(spec.release)),
    JsOr(Find(urls, Some(spec.url)),
    JsOr(JsAnd(spec.shortname = spec.series.currentSpecification,
               Find(urls, spec.series.nightlyUrl)),
         JsAnd(spec.shortname = spec.series.currentSpecification,
               Find(urls, spec.series.releaseUrl))))))


(***************************************************************************)
(* The compatibility tree (@mdn/browser-compat-data)                       *)
(***************************************************************************)
\* A support statement of a browser.
St(v) == [version_added |-> Some(v), partial_implementation |-> FALSE, flags |-> FALSE]
StPartial(v) == [version_added |-> Some(v), partial_implementation |-> TRUE, flags |-> FALSE]
StFlags(v) == [version_added |-> Some(v), partial_implementation |-> FALSE, flags |-> TRUE]
StNoVersion == [version_added |-> Absent, partial_implementation |-> FALSE, flags |-> FALSE]

\* The support entry of a browser: missing, one statement, or an array.
NoEntry == [kind |-> "none"]
One(st) == [kind |-> "single", sts |-> <<st>>]
Many(sts) == [kind |-> "array", sts |-> sts]

V2 == <<"2">>
V9 == <<"9">>
V10 == <<"1", "0">>
V100 == <<"1", "0", "0">>

BcdBrowsers ==
    {"chrome", "chrome_android", "edge", "firefox", "firefox_android",
     "safari", "safari_ios", "opera"}

SupportMap(ch, cha, ed, ff, ffa, sa, sai, op) ==
    [b \in BcdBrowsers |->
        CASE b = "chrome" -> ch
          [] b = "chrome_android" -> cha
          [] b = "edge" -> ed
          [] b = "firefox" -> ff
          [] b = "firefox_android" -> ffa
          [] b = "safari" -> sa
          [] b = "safari_ios" -> sai
          [] OTHER -> op]

\* spec_url is a string or an array of strings.
UrlString(u) == [isArray |-> FALSE, str |-> u, list |-> <<>>]
UrlArray(us) == [isArray |-> TRUE, str |-> <<>>, list |-> us]

\* Array.isArray(x) ? x : [x]
AsArray(x) == IF x.isArray THEN x.list ELSE <<x.str>>

Group == [__compat |-> Absent]
Leaf(specUrl, support) ==
    [__compat |-> Some([spec_url |-> specUrl, support |-> support])]

Seg(c) == <<c>>

\* The tree, as a map from the path of segments of a node to the node.  The
\* root categories are a (api) and c (css).
bcd ==
    (<<>> :> Group)
    @@ (<<Seg("a")>> :> Group)
    @@ (<<Seg("a"), Seg("d")>> :>
          Leaf(Some(UrlString(<<"b", "g", "x">>)),
               SupportMap(One(St(V9)), One(St(V10)), One(St(V9)), One(St(V10)),
                          One(St(V2)), One(St(V9)), One(St(V9)), One(St(V9)))))
    @@ (<<Seg("a"), Seg("d"), Seg("e")>> :>
          Leaf(Some(UrlArray(<< <<"b", "3", "x">>, <<"c", "1", "x">> >>)),
               SupportMap(One(St(V10)), One(St(V9)),
                          Many(<<St(V10), StFlags(V9)>>), One(StPartial(V10)),
                          NoEntry, One(StNoVersion), One(St(V10)), NoEntry)))
    @@ (<<Seg("a"), Seg("e")>> :>
          Leaf(Some(UrlString(<<"b", "1", "x">>)),
               SupportMap(One(St(V100)), Many(<<StFlags(V9), St(V10)>>),
                          One(St(V9)), One(St(V9)), One(St(V9)),
                          One(St(V10)), One(St(V2)), One(St(V100)))))
    @@ (<<Seg("a"), Seg("f")>> :>
          Leaf(Some(UrlString(<<"a", "6", "x">>)),
               SupportMap(One(St(V10)), One(St(V10)), One(St(V10)), One(St(V9)),
                          One(St(V9)), One(St(V2)), One(St(V2)), NoEntry)))
    @@ (<<Seg("c")>> :> Group)
    @@ (<<Seg("c"), Seg("d")>> :>
          Leaf(Absent,
               SupportMap(One(St(V2)), One(St(V10)), One(St(V10)), One(St(V10)),
                          One(St(V10)), One(St(V10)), One(St(V10)), NoEntry)))
    @@ (<<Seg("c"), Seg("e")>> :>
          Leaf(Some(UrlArray(<< <<"a", "4", "x">>, <<"a", "5">> >>)),
               SupportMap(One(St(V9)), NoEntry, NoEntry, NoEntry,
                          NoEntry, NoEntry, NoEntry, NoEntry)))
    @@ (<<Seg("c"), Seg("f")>> :> Group)
    @@ (<<Seg("c"), Seg("f"), Seg("d")>> :>
          Leaf(Some(UrlString(<<"a", "g">>)),
               SupportMap(NoEntry, NoEntry, NoEntry, NoEntry,
                          NoEntry, One(St(V10)), One(St(V9)), NoEntry)))
    @@ (<<Seg("c"), Seg("g")>> :>
          Leaf(Some(UrlString(<<"a", "4", "y">>)),
               SupportMap(NoEntry, NoEntry, NoEntry, NoEntry,
                          NoEntry, One(St(V9)), NoEntry, NoEntry)))

\* currKey.__compat of the node at path n.
CompatOf(n) == bcd[n].__compat

(***************************************************************************)
(* getBcdKey                                                               *)
(***************************************************************************)
\* String.prototype.split with a one-character separator
RECURSIVE SplitFrom(_, _, _, _, _)
SplitFrom(s, sep, i, cur, acc) ==
    IF i > Len(s) THEN Append(acc, cur)
    ELSE IF s[i] = sep THEN SplitFrom(s, sep, i + 1, <<>>, Append(acc, cur))
    ELSE SplitFrom(s, sep, i + 1, Append(cur, s[i]), acc)

SplitOn(s, sep) == SplitFrom(s, sep, 1, <<>>, <<>>)

\* key.split('.')
Split(s) == SplitOn(s, ".")

\* The loop over keyPath: an empty level stops the walk, a level that the
\* current node does not have throws.
RECURSIVE Walk(_, _, _)
Walk(keyPath, i, currKey) ==
    IF i > Len(keyPath) THEN [found |-> TRUE, node |-> currKey]
    ELSE IF keyPath[i] = <<>> THEN [found |-> TRUE, node |-> currKey]
    ELSE IF Append(currKey, keyPath[i]) \notin DOMAIN bcd
         THEN [found |-> FALSE, node |-> currKey]
    ELSE Walk(keyPath, i + 1, Append(currKey, keyPath[i]))

\* The node memoized under its last level instead of the whole key.
MemoPutLevel(memo, key, node) ==
    [k \in DOMAIN memo \cup {node[Len(node)]} |->
        IF k = node[Len(node)] THEN node ELSE memo[k]]

\* bcdKeys[key] = currKey
MemoPut(memo, key, node) ==
    [k \in DOMAIN memo \cup {key} |-> IF k = key THEN node ELSE memo[k]]

\* The value handed back for a node: the node, its compat record, or
\* undefined when the compat record is read off a node that has none.
Returned(node, support, memo) ==
    [kind |-> IF ~support THEN "node"
              ELSE IF CompatOf(node).present THEN "compat" ELSE "undefined",
     node |-> node, memo |-> memo]

Thrown(err, memo) == [kind |-> err, node |-> <<>>, memo |-> memo]

\* The part of getBcdKey that follows the walk w along the key path.
AfterWalk(key, support, memo, w) ==
    IF ~w.found THEN Thrown("MissingKey", memo)
    ELSE IF support /\ ~CompatOf(w.node).present
         THEN Thrown("NoCompatData", MemoPut(memo, key, w.node))
    ELSE Returned(w.node, support, MemoPut(memo, key, w.node))

getBcdKey(key, support, memo) ==
    IF key \in DOMAIN memo
    THEN Returned(memo[key], support, memo)
    ELSE AfterWalk(key, support, memo, Walk(Split(key), 1, <<>>))

(***************************************************************************)
(* getBrowserSupport                                                       *)
(***************************************************************************)
baselineBrowsers ==
    <<"chrome", "chrome_android", "edge", "firefox", "firefox_android",
      "safari", "safari_ios">>

\* Code unit of the characters of a version string.
CharCode(c) ==
    CASE c = "." -> 46
      [] c = "0" -> 48
      [] c = "1" -> 49
      [] c = "2" -> 50
      [] c = "9" -> 57

\* a < b on strings: the first differing code unit decides, a proper prefix
\* is smaller.
RECURSIVE StrLessFrom(_, _, _)
StrLessFrom(a, b, i) ==
    IF i > Len(b) THEN FALSE
    ELSE IF i > Len(a) THEN TRUE
    ELSE IF a[i] # b[i] THEN CharCode(a[i]) < CharCode(b[i])
    ELSE StrLessFrom(a, b, i + 1)

\* a > b, both strings
StrGreater(a, b) == StrLessFrom(b, a, 1)

\* keys.map(key => getBcdKey(key, { support: true })).filter(data => !!data);
\* r is the outcome of getBcdKey on keys[i].
RECURSIVE MapGetBcdKey(_, _, _, _)
MapStep(keys, i, acc, r) ==
    CASE r.kind = "compat" -> MapGetBcdKey(keys, i + 1, r.memo, Append(acc, r.node))
      [] r.kind = "undefined" -> MapGetBcdKey(keys, i + 1, r.memo, acc)
      [] OTHER -> [kind |-> r.kind, data |-> <<>>, memo |-> r.memo]

MapGetBcdKey(keys, i, memo, acc) ==
    IF i > Len(keys) THEN [kind |-> "ok", data |-> acc, memo |-> memo]
    ELSE MapStep(keys, i, acc, getBcdKey(keys[i], TRUE, memo))

\* The inner loop with a disqualified browser left open to later keys.
RECURSIVE SupportLoopNoBreak(_, _, _, _)
SupportLoopNoBreak(compatData, browser, i, acc) ==
    IF i > Len(compatData) THEN acc
    ELSE LET browserSupport == CompatOf(compatData[i]).val.support[browser]
         IN  IF browserSupport.kind = "none"
             THEN SupportLoopNoBreak(compatData, browser, i + 1, <<>>)
             ELSE LET st == browserSupport.sts[1]
                  IN  IF st.partial_implementation \/ st.flags
                      THEN SupportLoopNoBreak(compatData, browser, i + 1, <<>>)
                      ELSE IF st.version_added.present
                      THEN SupportLoopNoBreak(compatData, browser, i + 1,
                               IF StrGreater(st.version_added.val, acc)
                               THEN st.version_added.val ELSE acc)
                      ELSE SupportLoopNoBreak(compatData, browser, i + 1, <<>>)

\* The inner loop over compatData for one browser; acc is support[browser],
\* the empty string standing for a browser to drop.
RECURSIVE SupportLoop(_, _, _, _)
SupportLoop(compatData, browser, i, acc) ==
    IF i > Len(compatData) THEN acc
    ELSE LET browserSupport == CompatOf(compatData[i]).val.support[browser]
         IN  IF browserSupport.kind = "none" THEN <<>>
             ELSE LET st == browserSupport.sts[1]
                  IN  IF st.partial_implementation \/ st.flags THEN <<>>
                      ELSE IF st.version_added.present
                      THEN SupportLoop(compatData, browser, i + 1,
                               IF StrGreater(st.version_added.val, acc)
                               THEN st.version_added.val ELSE acc)
                      ELSE <<>>

\* The support map: the roster browsers whose value is not the empty string.
SupportOf(compatData) ==
    LET all == [j \in 1..Len(baselineBrowsers) |->
                   SupportLoop(compatData, baselineBrowsers[j], 1, <<>>)]
        kept == {baselineBrowsers[j] : j \in {k \in 1..Len(baselineBrowsers) : all[k] # <<>>}}
    IN  [b \in kept |->
            all[CHOOSE j \in 1..Len(baselineBrowsers) : baselineBrowsers[j] = b]]

\* The loops of getBrowserSupport, on the outcome m of the map over keys.
SupportFrom(m) ==
    IF m.kind = "ok"
    THEN [kind |-> "ok", support |-> SupportOf(m.data), memo |-> m.memo]
    ELSE [kind |-> m.kind, support |-> <<>>, memo |-> m.memo]

getBrowserSupport(keys, memo) == SupportFrom(MapGetBcdKey(keys, 1, memo, <<>>))

(***************************************************************************)
(* The specification catalog (web-specs)                                   *)
(***************************************************************************)
SpecRecord(shortname, org, url, nightly, release, current, seriesNightly, seriesRelease) ==
    [shortname |-> shortname, organization |-> org, url |-> url,
     nightly |-> nightly, release |-> release,
     series |-> [currentSpecification |-> current,
                 nightlyUrl |-> seriesNightly, releaseUrl |-> seriesRelease],
     compat_features |-> Absent]

Nightly(u) == Some([url |-> u])
Release(u, status) == Some([url |-> u, status |-> status])

\* Two levels of one series (the second one current), a specification in
\* incubation, specifications with a stable status, a specification of
\* another organization, a working draft that one key references and a
\* specification that no key references.
Catalog ==
    << SpecRecord("grid-1", "W3C", <<"a", "1">>, Nightly(<<"b", "1">>),
                  Release(<<"a", "1">>, "Recommendation"),
                  "grid-2", Some(<<"b", "g">>), Some(<<"a", "g">>)),
       SpecRecord("grid-2", "W3C", <<"a", "2">>, Nightly(<<"b", "2">>),
                  Release(<<"a", "2">>, "Working Draft"),
                  "grid-2", Some(<<"b", "g">>), Some(<<"a", "g">>)),
       SpecRecord("incub", "W3C", <<"b", "3">>, Nightly(<<"b", "3">>),
                  Absent, "incub", Some(<<"b", "3">>), Absent),
       SpecRecord("crd", "W3C", <<"a", "4">>, Nightly(<<"b", "4">>),
                  Release(<<"a", "4">>, "Candidate Recommendation Draft"),
                  "crd", Some(<<"b", "4">>), Some(<<"a", "4">>)),
       SpecRecord("pr", "W3C", <<"a", "5">>, Nightly(<<"b", "5">>),
                  Release(<<"a", "5">>, "Proposed Recommendation"),
                  "pr", Some(<<"b", "5">>), Some(<<"a", "5">>)),
       SpecRecord("html", "WHATWG", <<"c", "1">>, Nightly(<<"c", "1">>),
                  Absent, "html", Some(<<"c", "1">>), Absent),
       SpecRecord("full", "W3C", <<"a", "6">>, Nightly(<<"b", "6">>),
                  Release(<<"a", "6">>, "Working Draft"),
                  "full", Some(<<"b", "6">>), Some(<<"a", "6">>)),
       SpecRecord("nokeys", "W3C", <<"a", "7">>, Nightly(<<"b", "7">>),
                  Release(<<"a", "7">>, "Candidate Recommendation Snapshot"),
                  "nokeys", Some(<<"b", "7">>), Some(<<"a", "7">>)) >>

(***************************************************************************)
(* completeWithCompatFeatures                                              *)
(***************************************************************************)
\* The key whose compat record is r.node references the spec.
KeyReferences(spec, r) ==
    /\ r.kind = "compat"
    /\ CompatOf(r.node).val.spec_url.present
    /\ Truthy(isRelevantSpec(spec, AsArray(CompatOf(r.node).val.spec_url.val)))

\* The push made on the spec itself, no copy being made: isCopy tells
\* whether the object is another one than the spec.
PushedInPlace(spec, copy, feature) ==
    LET base == IF copy.present THEN copy.val ELSE spec
        list == IF base.compat_features.present
                THEN base.compat_features.val ELSE <<>>
    IN  [present |-> TRUE,
         val |-> [base EXCEPT !.compat_features = Some(Append(list, feature))],
         isCopy |-> FALSE]

\* copy.compat_features.push(feature), on a copy made with
\* Object.assign({}, spec) when there is none.
Pushed(spec, copy, feature) ==
    LET base == IF copy.present THEN copy.val ELSE spec
        list == IF base.compat_features.present
                THEN base.compat_features.val ELSE <<>>
    IN  [present |-> TRUE,
         val |-> [base EXCEPT !.compat_features = Some(Append(list, feature))],
         isCopy |-> TRUE]

\* The loop, ended by the first key that matches.
RECURSIVE CompleteLoopFirstOnly(_, _, _, _, _)
CompleteStepFirstOnly(spec, compat_features, i, copy, r) ==
    IF r.kind \in {"MissingKey", "NoCompatData"}
    THEN [kind |-> r.kind, spec |-> spec, isCopy |-> FALSE, memo |-> r.memo]
    ELSE IF KeyReferences(spec, r)
    THEN [kind |-> "ok",
          spec |-> [spec EXCEPT !.compat_features = Some(<<compat_features[i]>>)],
          isCopy |-> TRUE, memo |-> r.memo]
    ELSE CompleteLoopFirstOnly(spec, compat_features, i + 1, copy, r.memo)

CompleteLoopFirstOnly(spec, compat_features, i, copy, memo) ==
    IF i > Len(compat_features)
    THEN [kind |-> "ok", spec |-> IF copy.present THEN copy.val ELSE spec,
          isCopy |-> copy.present /\ copy.isCopy, memo |-> memo]
    ELSE CompleteStepFirstOnly(spec, compat_features, i, copy,
             getBcdKey(compat_features[i], TRUE, memo))

\* The loop over compat_features; copy is null (Absent) or the copy of the
\* spec made so far, r the outcome of getBcdKey on the key at i.  An error of
\* getBcdKey ends the loop.  The value returned is `copy ?? spec`: isCopy
\* tells whether it is another object than the spec.
RECURSIVE CompleteLoop(_, _, _, _, _)
CompleteStep(spec, compat_features, i, copy, r) ==
    IF r.kind \in {"MissingKey", "NoCompatData"}
    THEN [kind |-> r.kind, spec |-> spec, isCopy |-> FALSE, memo |-> r.memo]
    ELSE IF KeyReferences(spec, r)
    THEN CompleteLoop(spec, compat_features, i + 1,
             Pushed(spec, copy, compat_features[i]), r.memo)
    ELSE CompleteLoop(spec, compat_features, i + 1, copy, r.memo)

CompleteLoop(spec, compat_features, i, copy, memo) ==
    IF i > Len(compat_features)
    THEN [kind |-> "ok", spec |-> IF copy.present THEN copy.val ELSE spec,
          isCopy |-> copy.present /\ copy.isCopy, memo |-> memo]
    ELSE CompleteStep(spec, compat_features, i, copy,
             getBcdKey(compat_features[i], TRUE, memo))

completeWithCompatFeatures(spec, compat_features, memo) ==
    CompleteLoop(spec, compat_features, 1, Absent, memo)

(***************************************************************************)
(* analyzeFeatures                                                         *)
(***************************************************************************)
interoperableStatuses == {"Recommendation", "Proposed Recommendation"}

stableStatuses ==
    {"Candidate Recommendation Snapshot", "Candidate Recommendation Draft"}
        \cup interoperableStatuses

EmptyBuckets == [high |-> <<>>, low |-> <<>>, false |-> <<>>]

EmptyWorthChecking ==
    [lateIncubation |-> EmptyBuckets,
     lateWorkingDrafts |-> EmptyBuckets,
     interoperableStatuses |-> EmptyBuckets]

\* array.filter(test)
RECURSIVE Filter(_, _, _)
Filter(list, Test(_), i) ==
    IF i > Len(list) THEN <<>>
    ELSE IF Test(list[i]) THEN <<list[i]>> \o Filter(list, Test, i + 1)
    ELSE Filter(list, Test, i + 1)

\* The records pushed for the specs of one call.
RECURSIVE NewRecords(_, _, _)
NewRecords(feature, list, i) ==
    IF i > Len(list) THEN <<>>
    ELSE <<[feature |-> feature,
            spec |-> [shortname |-> list[i].shortname,
                      url |-> list[i].url,
                      compat_features |-> list[i].compat_features]]>>
         \o NewRecords(feature, list, i + 1)

recordPossibleAnomalies(wc, anomaly, feature, baseline, list) ==
    [wc EXCEPT ![anomaly][baseline] = @ \o NewRecords(feature, list, 1)]

\* The spelling of a browser identifier.
Spell(browser) ==
    CASE browser = "chrome" -> <<"c", "h", "r", "o", "m", "e">>
      [] browser = "chrome_android" ->
            <<"c", "h", "r", "o", "m", "e", "_", "a", "n", "d", "r", "o", "i", "d">>
      [] browser = "edge" -> <<"e", "d", "g", "e">>
      [] browser = "firefox" -> <<"f", "i", "r", "e", "f", "o", "x">>
      [] browser = "firefox_android" ->
            <<"f", "i", "r", "e", "f", "o", "x", "_", "a", "n", "d", "r", "o", "i", "d">>
      [] browser = "safari" -> <<"s", "a", "f", "a", "r", "i">>
      [] browser = "safari_ios" ->
            <<"s", "a", "f", "a", "r", "i", "_", "i", "o", "s">>
      [] browser = "opera" -> <<"o", "p", "e", "r", "a">>

\* The codebase of a browser, with no special case for edge.
CodebaseNoEdge(browser) == SplitOn(Spell(browser), "_")[1]

\* browser === 'edge' ? 'chrome' : browser.split('_')[0]
Codebase(browser) ==
    IF browser = "edge" THEN Spell("chrome")
    ELSE SplitOn(Spell(browser), "_")[1]

\* The set built by the loop over Object.keys(desc.status.support).
Codebases(support) == {Codebase(b) : b \in support}

\* .filter(s => s.compat_features), on the objects that the map returned.
RECURSIVE WithCompatFeaturesOnly(_, _)
WithCompatFeaturesOnly(objects, i) ==
    IF i > Len(objects) THEN <<>>
    ELSE IF objects[i].spec.compat_features.present
    THEN <<objects[i].spec>> \o WithCompatFeaturesOnly(objects, i + 1)
    ELSE WithCompatFeaturesOnly(objects, i + 1)

\* webSpecs.map(s => completeWithCompatFeatures(s, keys)).filter(s => s.compat_features);
\* r is the outcome of completeWithCompatFeatures on catalog[i], acc the
\* objects returned for the specs before it.
RECURSIVE LinkByKeys(_, _, _, _, _)
LinkStep(catalog, compat_features, i, acc, r) ==
    IF r.kind # "ok"
    THEN [kind |-> r.kind, specs |-> <<>>, memo |-> r.memo, mapped |-> <<>>]
    ELSE LinkByKeys(catalog, compat_features, i + 1,
             Append(acc, [spec |-> r.spec, isCopy |-> r.isCopy]), r.memo)

LinkByKeys(catalog, compat_features, i, acc, memo) ==
    IF i > Len(catalog)
    THEN [kind |-> "ok", specs |-> WithCompatFeaturesOnly(acc, 1), memo |-> memo,
          mapped |-> acc]
    ELSE LinkStep(catalog, compat_features, i, acc,
             completeWithCompatFeatures(catalog[i], compat_features, memo))

\* The catalog after the map: an object returned that is the spec itself is
\* the record of the catalog, with whatever was done to it.
CatalogAfter(catalog, objects) ==
    [j \in 1..Len(catalog) |->
        IF j <= Len(objects) /\ ~objects[j].isCopy
        THEN objects[j].spec ELSE catalog[j]]

\* specs.map(spec => Object.assign({ compat_features: desc.compat_features }, spec))
WithCompatFeatures(found, d) ==
    [j \in 1..Len(found) |-> [found[j] EXCEPT !.compat_features = d.compat_features]]

\* The specs found for the `spec` property, asserted not to be empty.
Asserted(found, urls, d, usp, memo) ==
    IF Len(urls) > 0 /\ Len(found) = 0
    THEN [kind |-> "NoSpecLinked", specs |-> <<>>, memo |-> memo, mapped |-> <<>>]
    ELSE [kind |-> "ok",
          specs |-> IF usp THEN WithCompatFeatures(found, d) ELSE found,
          memo |-> memo, mapped |-> <<>>]

\* The specs found for the `spec` property, with no assertion.
NotAsserted(found, urls, d, usp, memo) ==
    [kind |-> "ok",
     specs |-> IF usp THEN WithCompatFeatures(found, d) ELSE found,
     memo |-> memo, mapped |-> <<>>]

\* webSpecs.filter(s => isRelevantSpec(s, urls))
RelevantSpecs(catalog, urls) ==
    LET IsRel(s) == Truthy(isRelevantSpec(s, urls))
    IN  Filter(catalog, IsRel, 1)

\* The else branch without the assertion on the specs found.
LinkBySpecPropertyNoAssert(catalog, d, usp, memo) ==
    IF ~d.spec.present
    THEN [kind |-> "NoSpecProperty", specs |-> <<>>, memo |-> memo, mapped |-> <<>>]
    ELSE NotAsserted(RelevantSpecs(catalog, AsArray(d.spec.val)),
                     AsArray(d.spec.val), d, usp, memo)

\* The else branch: the specs that are relevant to the `spec` property.
LinkBySpecProperty(catalog, d, usp, memo) ==
    IF ~d.spec.present
    THEN [kind |-> "NoSpecProperty", specs |-> <<>>, memo |-> memo, mapped |-> <<>>]
    ELSE Asserted(RelevantSpecs(catalog, AsArray(d.spec.val)),
                  AsArray(d.spec.val), d, usp, memo)

\* "Assemble the list of specs that define (part of) the feature"
LinkSpecs(catalog, d, usp, memo) ==
    IF ~usp /\ d.compat_features.present
    THEN LinkByKeys(catalog, d.compat_features.val, 1, <<>>, memo)
    ELSE LinkBySpecProperty(catalog, d, usp, memo)

\* The filter on the organization, let through for every organization.
IsAnyOrganization(s) == s.organization \in {"W3C", "WHATWG"}

\* The filters of the loop body.
IsW3C(s) == s.organization = "W3C"
IsInteroperable(s) == s.release.present /\ s.release.val.status \in interoperableStatuses
IsIncubation(s) == ~s.release.present

\* The filter of late working drafts, with the interoperable statuses in
\* place of the stable ones.
IsWorkingDraftNotInteroperable(s) ==
    s.release.present /\ s.release.val.status \notin interoperableStatuses

IsWorkingDraft(s) == s.release.present /\ s.release.val.status \notin stableStatuses

\* The two calls of recordPossibleAnomalies that end the loop body.
Step2(wc, feature, baseline, w3cSpecs) ==
    recordPossibleAnomalies(
        recordPossibleAnomalies(wc, "lateIncubation", feature, baseline,
            Filter(w3cSpecs, IsIncubation, 1)),
        "lateWorkingDrafts", feature, baseline,
        Filter(w3cSpecs, IsWorkingDraft, 1))

\* The call of recordPossibleAnomalies on the interoperable specs.
Step1(wc, feature, baseline, w3cSpecs) ==
    recordPossibleAnomalies(wc, "interoperableStatuses", feature, baseline,
        Filter(w3cSpecs, IsInteroperable, 1))

\* The classification without the `continue` of the single-codebase branch.
ClassifyNoContinue(wc, feature, d, w3cSpecs) ==
    IF /\ d.status.val.baseline = "false"
       /\ Cardinality(Codebases(d.status.val.support)) > 1
    THEN Step2(wc, feature, d.status.val.baseline, w3cSpecs)
    ELSE Step2(Step1(wc, feature, d.status.val.baseline, w3cSpecs),
               feature, d.status.val.baseline, w3cSpecs)

\* The classification of a feature whose baseline is false, low or high.
Classify(wc, feature, d, w3cSpecs) ==
    IF d.status.val.baseline = "false"
    THEN IF Cardinality(Codebases(d.status.val.support)) <= 1
         THEN Step1(wc, feature, d.status.val.baseline, w3cSpecs)
         ELSE Step2(wc, feature, d.status.val.baseline, w3cSpecs)
    ELSE Step2(Step1(wc, feature, d.status.val.baseline, w3cSpecs),
               feature, d.status.val.baseline, w3cSpecs)

\* The loop body from the filter on the organization on; l is the outcome
\* of the linking and w3cSpecs the specs that pass the filter.
AfterFilter(wc, feature, d, l, w3cSpecs) ==
    [kind |-> "ok",
     wc |-> IF /\ Len(w3cSpecs) > 0
               /\ d.status.val.baseline \in {"false", "low", "high"}
            THEN Classify(wc, feature, d, w3cSpecs)
            ELSE wc,
     memo |-> l.memo, linked |-> l.specs, mapped |-> l.mapped]

\* The loop body after the linking; an error of the linking ends the run.
AfterLink(wc, feature, d, l) ==
    IF l.kind # "ok"
    THEN [kind |-> l.kind, wc |-> wc, memo |-> l.memo, linked |-> <<>>,
          mapped |-> l.mapped]
    ELSE AfterFilter(wc, feature, d, l, Filter(l.specs, IsW3C, 1))

\* The body of the loop over the features, for feature number `feature`;
\* `linked` is the value of the local variable specs.
LoopBody(wc, feature, d, catalog, usp, memo) ==
    IF ~d.status.present
    THEN [kind |-> "ok", wc |-> wc, memo |-> memo, linked |-> <<>>, mapped |-> <<>>]
    ELSE AfterLink(wc, feature, d, LinkSpecs(catalog, d, usp, memo))

(***************************************************************************)
(* getAllBcdKeys, traverseBCDFeatures and analyzeBCD                       *)
(***************************************************************************)
\* Object.keys(bcdKeys) after getBcdKey(key) took the map from `before` to
\* `after`: a key that was added comes last.
Inserted(order, before, after, key) ==
    IF key \notin DOMAIN before /\ key \in DOMAIN after
    THEN Append(order, key) ELSE order

\* The entry of bcdKeys carries a compat record with a spec_url that the
\* spec is relevant to.
EntryReferences(spec, node) ==
    /\ CompatOf(node).present
    /\ CompatOf(node).val.spec_url.present
    /\ Truthy(isRelevantSpec(spec, AsArray(CompatOf(node).val.spec_url.val)))

\* The loop over Object.entries(bcdKeys).
RECURSIVE AllKeysFrom(_, _, _, _)
AllKeysFrom(spec, memo, order, i) ==
    IF i > Len(order) THEN <<>>
    ELSE IF EntryReferences(spec, memo[order[i]])
    THEN <<order[i]>> \o AllKeysFrom(spec, memo, order, i + 1)
    ELSE AllKeysFrom(spec, memo, order, i + 1)

getAllBcdKeys(spec, memo, order) == AllKeysFrom(spec, memo, order, 1)

\* The root categories the traversal starts from; the tree has two.
rootLevels == <<Seg("a"), Seg("c")>>

CompatProp == <<"_", "_", "c", "o", "m", "p", "a", "t">>

\* The order in which `for (const i in bcdKey)` meets the children.
SegOrder == <<Seg("d"), Seg("e"), Seg("f"), Seg("g")>>

\* The properties of a node, all of them objects: its compat record, if it
\* has one, and its children.
Props(n) ==
    (IF CompatOf(n).present THEN <<CompatProp>> ELSE <<>>)
        \o SelectSeq(SegOrder, LAMBDA seg : Append(n, seg) \in DOMAIN bcd)

\* The test on a property, with the compat record let through.
IsTraversedAny(prop) == prop = prop

\* !!bcdKey[i] && typeof bcdKey[i] == 'object' && i !== '__compat'
IsTraversed(prop) == prop # CompatProp

\* A call of traverseBCDFeatures(key) suspended in its loop: i properties of
\* the node are done.
Frame(key, node) == [key |-> key, node |-> node, i |-> 0]

GenStart == [stack |-> <<>>, pending |-> <<>>, root |-> 0]

Pop(stack) == SubSeq(stack, 1, Len(stack) - 1)

Advance(stack) == [stack EXCEPT ![Len(stack)].i = @ + 1]

\* The generator runs from where it is suspended to its next yield, to its
\* end, or to the error of a getBcdKey call.  g.pending is the key yielded
\* last, whose traversal `yield*` starts on resumption; g.root counts the
\* root categories entered.
RECURSIVE Resume(_, _, _)
RECURSIVE EnterWith(_, _, _, _, _)
EnterWith(g, key, before, order, r) ==
    IF r.kind # "node"
    THEN [kind |-> r.kind, key |-> key, gen |-> g, memo |-> r.memo,
          order |-> Inserted(order, before, r.memo, key)]
    ELSE Resume([g EXCEPT !.stack = Append(@, Frame(key, r.node))],
                r.memo, Inserted(order, before, r.memo, key))

Resume(g, memo, order) ==
    IF g.pending # <<>>
    THEN EnterWith([g EXCEPT !.pending = <<>>], g.pending, memo, order,
                   getBcdKey(g.pending, FALSE, memo))
    ELSE IF g.stack = <<>>
    THEN IF g.root = Len(rootLevels)
         THEN [kind |-> "done", key |-> <<>>, gen |-> g, memo |-> memo,
               order |-> order]
         ELSE EnterWith([g EXCEPT !.root = @ + 1], rootLevels[g.root + 1],
                        memo, order,
                        getBcdKey(rootLevels[g.root + 1], FALSE, memo))
    ELSE IF g.stack[Len(g.stack)].i = Len(Props(g.stack[Len(g.stack)].node))
    THEN Resume([g EXCEPT !.stack = Pop(@)], memo, order)
    ELSE IF IsTraversed(Props(g.stack[Len(g.stack)].node)[g.stack[Len(g.stack)].i + 1])
    THEN [kind |-> "yield",
          key |-> g.stack[Len(g.stack)].key \o <<".">>
                    \o Props(g.stack[Len(g.stack)].node)[g.stack[Len(g.stack)].i + 1],
          gen |-> [g EXCEPT !.stack = Advance(@),
                            !.pending =
                                g.stack[Len(g.stack)].key \o <<".">>
                                  \o Props(g.stack[Len(g.stack)].node)[g.stack[Len(g.stack)].i + 1]],
          memo |-> memo, order |-> order]
    ELSE Resume([g EXCEPT !.stack = Advance(@)], memo, order)

\* (Object.keys(support).length > 6) ? 'low' : false, with one browser less.
DerivedBaselineSix(support) ==
    IF Cardinality(DOMAIN support) >= 6 THEN "low" ELSE "false"

\* (Object.keys(support).length > 6) ? 'low' : false
DerivedBaseline(support) ==
    IF Cardinality(DOMAIN support) > 6 THEN "low" ELSE "false"

\* The entry added to specFeatures for a spec.
PseudoFeature(spec, compat_features, support) ==
    [shortname |-> spec.shortname,
     compat_features |-> compat_features,
     status |-> [baseline |-> DerivedBaseline(support), support |-> support],
     spec |-> spec.url]

\* The body of the loop over w3cSpecs once getAllBcdKeys found keys; s is
\* the outcome of getBrowserSupport on them.
WithSupport(features, spec, compat_features, s) ==
    IF s.kind # "ok" THEN [kind |-> s.kind, features |-> features, memo |-> s.memo]
    ELSE [kind |-> "ok",
          features |-> IF Cardinality(DOMAIN s.support) > 0
                       THEN Append(features,
                                PseudoFeature(spec, compat_features, s.support))
                       ELSE features,
          memo |-> s.memo]

\* The body of the loop over w3cSpecs, for the keys found by getAllBcdKeys.
WithKeys(features, spec, compat_features, memo) ==
    IF Len(compat_features) > 0
    THEN WithSupport(features, spec, compat_features,
                     getBrowserSupport(compat_features, memo))
    ELSE [kind |-> "ok", features |-> features, memo |-> memo]

\* The descriptor that analyzeFeatures reads off a pseudo-feature: of the
\* support map it takes the keys only.
DescOf(f) ==
    [status |-> Some([baseline |-> f.status.baseline,
                      support |-> DOMAIN f.status.support]),
     compat_features |-> Some(f.compat_features),
     spec |-> Some(UrlString(f.spec))]

\* analyzeFeatures(specFeatures, { useSpecsProperty: true }): the loop over
\* the pseudo-features; r is the outcome of the loop body on features[i].
RECURSIVE AnalyzeAll(_, _, _, _, _)
AnalyzeNext(features, i, catalog, r) ==
    IF r.kind # "ok" \/ i = Len(features)
    THEN [kind |-> r.kind, wc |-> r.wc, memo |-> r.memo, linked |-> r.linked,
          mapped |-> r.mapped, catalog |-> CatalogAfter(catalog, r.mapped),
          count |-> i]
    ELSE AnalyzeAll(features, i + 1, r.wc, CatalogAfter(catalog, r.mapped), r.memo)

AnalyzeAll(features, i, wc, catalog, memo) ==
    IF i > Len(features)
    THEN [kind |-> "ok", wc |-> wc, memo |-> memo, linked |-> <<>>,
          mapped |-> <<>>, catalog |-> catalog, count |-> 0]
    ELSE AnalyzeNext(features, i, catalog,
             LoopBody(wc, features[i].shortname, DescOf(features[i]), catalog,
                      TRUE, memo))

(***************************************************************************)
(* Specification SpecRel: isRelevantSpec applied to bounded inputs         *)
(***************************************************************************)
\* URLs of the optional fields (nightly, release, series): one that is a
\* prefix of other reference URLs and one that is not.
FieldUrls == {<<"a">>, <<"b", "a">>}

OptRefUrls == {Absent} \cup {Some(u) : u \in FieldUrls}

RelSpecs ==
    [shortname : {"s1"},
     url : RefUrls,
     nightly : {Absent} \cup {Some([url |-> u]) : u \in FieldUrls},
     release : {Absent} \cup
               {Some([url |-> u, status |-> "Working Draft"]) : u \in FieldUrls},
     series : [currentSpecification : {"s1", "s2"},
               nightlyUrl : OptRefUrls,
               releaseUrl : OptRefUrls]]

UrlLists == SeqsUpTo(Urls, MaxUrls)

EmptyMemo == [k \in {} |-> <<>>]
NoCall == [kind |-> "none", node |-> <<>>, memo |-> EmptyMemo]

RelIdle ==
    /\ rSpec = [shortname |-> "s1", url |-> <<"a">>, nightly |-> Absent,
                release |-> Absent,
                series |-> [currentSpecification |-> "s1",
                            nightlyUrl |-> Absent, releaseUrl |-> Absent]]
    /\ rUrls = <<>>
    /\ rResult = JsUndefined
    /\ rPc = "idle"

BcdIdle ==
    /\ bcdKeys = EmptyMemo
    /\ gKey = <<>>
    /\ gSupport = FALSE
    /\ gResult = NoCall
    /\ gCached = FALSE

SupIdle ==
    /\ sKeys = <<>>
    /\ sResult = [kind |-> "none", support |-> <<>>]

NoDesc == [status |-> Absent, compat_features |-> Absent, spec |-> Absent]

AnaIdle ==
    /\ webSpecs = Catalog
    /\ useSpecsProperty = FALSE
    /\ worthChecking = EmptyWorthChecking
    /\ pc = "idle"
    /\ idx = 0
    /\ desc = NoDesc
    /\ specs = <<>>
    /\ mapped = <<>>
    /\ error = "none"

CbIdle ==
    /\ cSupport = {}
    /\ cCodebases = Absent

NoGen == [stack |-> <<>>, pending |-> <<>>, root |-> 0]

AbIdle ==
    /\ keyOrder = <<>>
    /\ gen = NoGen
    /\ tKey = <<>>
    /\ tResolved = "none"
    /\ tYielded = <<>>
    /\ abPc = "idle"
    /\ abIdx = 0
    /\ specFeatures = <<>>

InitRel ==
    /\ rSpec \in RelSpecs
    /\ rUrls \in UrlLists
    /\ rResult = JsUndefined
    /\ rPc = "input"
    /\ BcdIdle
    /\ SupIdle
    /\ AnaIdle
    /\ CbIdle
    /\ AbIdle

CallIsRelevantSpec ==
    /\ rPc = "input"
    /\ rResult' = isRelevantSpec(rSpec, rUrls)
    /\ rPc' = "done"
    /\ UNCHANGED <<rSpec, rUrls, bcdVars, supVars, anaVars, cbVars, abVars>>

NextRel == CallIsRelevantSpec

SpecRel == InitRel /\ [][NextRel]_vars

(***************************************************************************)
(* Specification SpecBcd: any sequence of getBcdKey calls                  *)
(***************************************************************************)
Str1(a) == <<a>>
Str3(a, b, c) == <<a, b, c>>

\* Key strings handed to getBcdKey: the callers pass dotted paths of
\* non-empty segments, which name grouping nodes, nodes with a compat record,
\* or no node at all.
KeyInputs ==
    {Str1("a"), Str1("c"), Str1("b"),
     Str3("a", ".", "d"), Str3("a", ".", "z"), Str3("c", ".", "d"),
     Str3("c", ".", "e"), Str3("c", ".", "f"),
     <<"a", ".", "d", ".", "e">>, <<"a", ".", "z", ".", "e">>,
     <<"c", ".", "f", ".", "d">>}

InitBcd ==
    /\ RelIdle
    /\ BcdIdle
    /\ SupIdle
    /\ AnaIdle
    /\ CbIdle
    /\ AbIdle

\* The call returns or throws r.
GetBcdKeyEnds(key, support, r) ==
    /\ gKey' = key
    /\ gSupport' = support
    /\ gResult' = [r EXCEPT !.memo = EmptyMemo]
    /\ gCached' = (key \in DOMAIN bcdKeys)
    /\ bcdKeys' = r.memo
    /\ UNCHANGED <<relVars, supVars, anaVars, cbVars, abVars>>

CallGetBcdKey ==
    \E key \in KeyInputs, support \in BOOLEAN :
        GetBcdKeyEnds(key, support, getBcdKey(key, support, bcdKeys))

NextBcd == CallGetBcdKey

SpecBcd == InitBcd /\ [][NextBcd]_vars

(***************************************************************************)
(* Specification SpecSup: getBrowserSupport applied to bounded key lists   *)
(***************************************************************************)
\* The key string of a node: its segments joined with dots.
RECURSIVE KeyOf(_)
KeyOf(n) ==
    IF Len(n) = 0 THEN <<>>
    ELSE IF Len(n) = 1 THEN n[1]
    ELSE KeyOf(SubSeq(n, 1, Len(n) - 1)) \o <<".">> \o n[Len(n)]

\* The keys that carry a compat record.
CompatKeys == {KeyOf(n) : n \in {m \in DOMAIN bcd : CompatOf(m).present}}

\* The memoization map once analyzeBCD has resolved every traversed key.
TraversalMemo ==
    [k \in {KeyOf(n) : n \in DOMAIN bcd \ {<<>>}} |-> Walk(Split(k), 1, <<>>).node]

InitSup ==
    /\ RelIdle
    /\ bcdKeys \in {EmptyMemo, TraversalMemo}
    /\ gKey = <<>>
    /\ gSupport = FALSE
    /\ gResult = NoCall
    /\ gCached = FALSE
    /\ sKeys \in SeqsUpTo(CompatKeys, MaxKeys)
    /\ sResult = [kind |-> "none", support |-> <<>>]
    /\ AnaIdle
    /\ CbIdle
    /\ AbIdle

\* The call returns or throws r.
GetBrowserSupportEnds(r) ==
    /\ sResult' = [kind |-> r.kind, support |-> r.support]
    /\ bcdKeys' = r.memo
    /\ UNCHANGED <<relVars, gKey, gSupport, gResult, gCached, sKeys, anaVars,
                   cbVars, abVars>>

CallGetBrowserSupport ==
    /\ sResult.kind = "none"
    /\ GetBrowserSupportEnds(getBrowserSupport(sKeys, bcdKeys))

NextSup == CallGetBrowserSupport

SpecSup == InitSup /\ [][NextSup]_vars

(***************************************************************************)
(* Specification Spec: analyzeFeatures over a catalog of features          *)
(***************************************************************************)
Status(baseline, support) == Some([baseline |-> baseline, support |-> support])

\* The status of a feature: the support of a feature that is not Baseline
\* spans no codebase, one codebase or several.
Statuses ==
    {Status("false", {}),
     Status("false", {"chrome", "edge"}),
     Status("false", {"safari", "safari_ios"}),
     Status("false", {"chrome", "firefox"}),
     Status("false", {"chrome_android", "firefox_android", "safari_ios"}),
     Status("low", {"chrome", "edge", "firefox", "safari"}),
     Status("high", {"chrome", "edge", "firefox", "safari"})}

Key2(a, b) == <<a, ".", b>>
Key3(a, b, c) == <<a, ".", b, ".", c>>

Linking(compat_features, spec) == [compat_features |-> compat_features, spec |-> spec]

\* Web-features entries carry a `spec` property; the URL z is the URL of no
\* specification of the catalog.
Unmatched == Some(UrlString(<<"z">>))

\* How a feature names its specifications: by compat keys (lists of distinct
\* keys) next to its `spec` property, or by its `spec` property alone.
Linkings ==
    {Linking(Some(<<Key2("a", "e")>>), Unmatched),
     Linking(Some(<<Key2("a", "d"), Key3("c", "f", "d")>>), Unmatched),
     Linking(Some(<<Key3("a", "d", "e"), Key2("c", "e")>>), Unmatched),
     Linking(Some(<<Key2("c", "d")>>), Unmatched),
     Linking(Some(<<Key2("c", "f")>>), Unmatched),
     Linking(Absent, Unmatched),
     Linking(Absent, Some(UrlString(<<"a", "1">>))),
     Linking(Absent, Some(UrlString(<<"c", "1">>))),
     Linking(Absent, Some(UrlArray(<< <<"b", "3">>, <<"c", "1">> >>)))}

\* Further linkings, tried on a feature of Baseline low.
MoreLinkings ==
    {Linking(Some(<<Key3("c", "f", "d"), Key2("a", "d")>>), Unmatched),
     Linking(Some(<<Key3("a", "d", "e"), Key2("a", "d"), Key3("c", "f", "d")>>),
             Some(UrlString(<<"a", "1">>))),
     Linking(Some(<<Key2("a", "z")>>), Unmatched),
     Linking(Some(<<>>), Unmatched),
     Linking(Absent, Absent),
     Linking(Absent, Some(UrlArray(<<>>))),
     Linking(Absent, Some(UrlArray(<< <<"a", "4">>, <<"a", "g">> >>)))}

Feature(status, linking) ==
    [status |-> status, compat_features |-> linking.compat_features,
     spec |-> linking.spec]

\* The features handed to analyzeFeatures; one has a baseline outside
\* false, low and high, and one has no status.
FeatureDescs ==
    {Feature(st, l) : st \in Statuses, l \in Linkings}
    \cup {Feature(Status("low", {"chrome", "edge", "firefox", "safari"}), l) :
            l \in MoreLinkings}
    \cup {Feature(Status("none", {"chrome"}),
                  Linking(Absent, Some(UrlString(<<"a", "1">>)))),
          Feature(Absent, Linking(Absent, Unmatched))}

Init ==
    /\ RelIdle
    /\ BcdIdle
    /\ SupIdle
    /\ webSpecs = Catalog
    /\ useSpecsProperty \in BOOLEAN
    /\ worthChecking = EmptyWorthChecking
    /\ pc = "loop"
    /\ idx = 0
    /\ desc = NoDesc
    /\ specs = <<>>
    /\ mapped = <<>>
    /\ error = "none"
    /\ CbIdle
    /\ AbIdle

\* One turn of the loop over Object.entries(features).
\* The loop body ends with r for feature d: the loop goes on, or the error
\* thrown ends the run.
LoopBodyEnds(d, r) ==
    /\ desc' = d
    /\ idx' = idx + 1
    /\ bcdKeys' = r.memo
    /\ worthChecking' = r.wc
    /\ specs' = r.linked
    /\ mapped' = r.mapped
    /\ webSpecs' = CatalogAfter(webSpecs, r.mapped)
    /\ error' = IF r.kind = "ok" THEN error ELSE r.kind
    /\ pc' = IF r.kind = "ok" THEN "loop" ELSE "aborted"
    /\ UNCHANGED <<relVars, gKey, gSupport, gResult, gCached, supVars,
                   useSpecsProperty, cbVars, abVars>>

AnalyzeFeature ==
    /\ pc = "loop"
    /\ idx < MaxFeatures
    /\ \E d \in FeatureDescs :
          LoopBodyEnds(d, LoopBody(worthChecking, idx + 1, d, webSpecs,
                                   useSpecsProperty, bcdKeys))

\* The loop is over: the report is printed.
Report ==
    /\ pc = "loop"
    /\ pc' = "done"
    /\ UNCHANGED <<relVars, bcdVars, supVars, webSpecs, useSpecsProperty,
                   worthChecking, idx, desc, specs, mapped, error, cbVars, abVars>>

Next == AnalyzeFeature \/ Report

Spec == Init /\ [][Next]_vars

(***************************************************************************)
(* Specification SpecAnalyzeBCD: analyzeBCD, run after analyzeFeatures     *)
(***************************************************************************)
\* Lists of distinct keys.
Distinct(keys) == \A i, j \in 1..Len(keys) : i # j => keys[i] # keys[j]

\* The keys that the run of analyzeFeatures resolved before analyzeBCD
\* starts: keys with a compat record, the run having ended without error.
PriorKeys == {keys \in SeqsUpTo(CompatKeys, MaxPrior) : Distinct(keys)}

\* bcdKeys after getBcdKey(key, { support: true }) on each of the keys.
RECURSIVE MemoAfter(_, _, _)
MemoAfter(keys, i, memo) ==
    IF i > Len(keys) THEN memo
    ELSE MemoAfter(keys, i + 1, getBcdKey(keys[i], TRUE, memo).memo)

InitAnalyzeBCD ==
    /\ RelIdle
    /\ \E keys \in PriorKeys :
          /\ bcdKeys = MemoAfter(keys, 1, EmptyMemo)
          /\ keyOrder = keys
    /\ gKey = <<>>
    /\ gSupport = FALSE
    /\ gResult = NoCall
    /\ gCached = FALSE
    /\ SupIdle
    /\ AnaIdle
    /\ CbIdle
    /\ gen = GenStart
    /\ tKey = <<>>
    /\ tResolved = "none"
    /\ tYielded = <<>>
    /\ abPc = "traverse"
    /\ abIdx = 0
    /\ specFeatures = <<>>

\* The body of the loop over the traversal: getBcdKey on the key yielded by
\* r ends with g.
TraverseBodyEnds(r, g) ==
    /\ tKey' = r.key
    /\ tResolved' = g.kind
    /\ tYielded' = Append(tYielded, r.key)
    /\ gen' = r.gen
    /\ bcdKeys' = g.memo
    /\ keyOrder' = Inserted(r.order, r.memo, g.memo, r.key)
    /\ abPc' = IF g.kind = "node" THEN "traverse" ELSE "aborted"
    /\ error' = IF g.kind = "node" THEN error ELSE g.kind
    /\ UNCHANGED <<abIdx, specFeatures>>

\* The generator ran to r: a key for the loop body, its end, or an error.
TraverseEnds(r) ==
    IF r.kind = "yield"
    THEN TraverseBodyEnds(r, getBcdKey(r.key, FALSE, r.memo))
    ELSE /\ gen' = r.gen
         /\ bcdKeys' = r.memo
         /\ keyOrder' = r.order
         /\ abPc' = IF r.kind = "done" THEN "specs" ELSE "aborted"
         /\ error' = IF r.kind = "done" THEN error ELSE r.kind
         /\ UNCHANGED <<tKey, tResolved, tYielded, abIdx, specFeatures>>

\* One turn of `for (const key of traverseBCDFeatures())`.
TraverseStep ==
    /\ abPc = "traverse"
    /\ TraverseEnds(Resume(gen, bcdKeys, keyOrder))
    /\ UNCHANGED <<relVars, gKey, gSupport, gResult, gCached, supVars, webSpecs,
                   useSpecsProperty, worthChecking, pc, idx, desc, specs, mapped,
                   cbVars>>

\* webSpecs.filter(s => s.organization === 'W3C')
w3cSpecs == Filter(webSpecs, IsW3C, 1)

\* The loop body on a spec ends with r.
AnalyzeSpecEnds(r) ==
    /\ specFeatures' = r.features
    /\ bcdKeys' = r.memo
    /\ abIdx' = abIdx + 1
    /\ abPc' = IF r.kind = "ok" THEN "specs" ELSE "aborted"
    /\ error' = IF r.kind = "ok" THEN error ELSE r.kind

\* One turn of `for (const spec of w3cSpecs)`.
AnalyzeSpec ==
    /\ abPc = "specs"
    /\ abIdx < Len(w3cSpecs)
    /\ AnalyzeSpecEnds(
          WithKeys(specFeatures, w3cSpecs[abIdx + 1],
                   getAllBcdKeys(w3cSpecs[abIdx + 1], bcdKeys, keyOrder),
                   bcdKeys))
    /\ UNCHANGED <<relVars, gKey, gSupport, gResult, gCached, supVars, webSpecs,
                   useSpecsProperty, worthChecking, pc, idx, desc, specs, mapped,
                   cbVars, keyOrder, gen, tKey, tResolved, tYielded>>

\* analyzeFeatures on the pseudo-features ends with r.
AnalyzePseudoFeaturesEnds(r) ==
    /\ worthChecking' = r.wc
    /\ bcdKeys' = r.memo
    /\ idx' = r.count
    /\ desc' = IF r.count > 0 THEN DescOf(specFeatures[r.count]) ELSE desc
    /\ specs' = r.linked
    /\ mapped' = r.mapped
    /\ webSpecs' = r.catalog
    /\ pc' = IF r.kind = "ok" THEN "done" ELSE "aborted"
    /\ abPc' = IF r.kind = "ok" THEN "done" ELSE "aborted"
    /\ error' = IF r.kind = "ok" THEN error ELSE r.kind

\* analyzeFeatures(specFeatures, { useSpecsProperty: true })
AnalyzePseudoFeatures ==
    /\ abPc = "specs"
    /\ abIdx = Len(w3cSpecs)
    /\ useSpecsProperty' = TRUE
    /\ AnalyzePseudoFeaturesEnds(
          AnalyzeAll(specFeatures, 1, EmptyWorthChecking, webSpecs, bcdKeys))
    /\ UNCHANGED <<relVars, gKey, gSupport, gResult, gCached, supVars, cbVars,
                   keyOrder, gen, tKey, tResolved, tYielded, abIdx, specFeatures>>

NextAnalyzeBCD == TraverseStep \/ AnalyzeSpec \/ AnalyzePseudoFeatures

SpecAnalyzeBCD == InitAnalyzeBCD /\ [][NextAnalyzeBCD]_vars

(***************************************************************************)
(* Specification SpecCodebases: the codebases of a support map             *)
(***************************************************************************)
InitCodebases ==
    /\ RelIdle
    /\ BcdIdle
    /\ SupIdle
    /\ AnaIdle
    /\ AbIdle
    /\ cSupport \in SUBSET BcdBrowsers
    /\ cCodebases = Absent

\* The loop over Object.keys(desc.status.support) of a feature whose
\* baseline is false.
CountCodebases ==
    /\ ~cCodebases.present
    /\ cCodebases' = Some(Codebases(cSupport))
    /\ UNCHANGED <<relVars, bcdVars, supVars, anaVars, cSupport, abVars>>

NextCodebases == CountCodebases

SpecCodebases == InitCodebases /\ [][NextCodebases]_vars

(***************************************************************************)
(* Claims                                                                  *)
(***************************************************************************)
\* p is a prefix of u, stated pointwise.
IsPrefix(p, u) ==
    /\ Len(p) <= Len(u)
    /\ \A i \in 1..Len(p) : p[i] = u[i]

SomeUrlHasPrefix(urls, opt) ==
    opt.present /\ \E i \in 1..Len(urls) : IsPrefix(opt.val, urls[i])

IsCurrent(spec) == spec.shortname = spec.series.currentSpecification

\* The five cases in which a specification is relevant to a list of URLs.
Relevant(spec, urls) ==
    \/ spec.nightly.present /\ SomeUrlHasPrefix(urls, Some(spec.nightly.val.url))
    \/ spec.release.present /\ SomeUrlHasPrefix(urls, Some(spec.release.val.url))
    \/ SomeUrlHasPrefix(urls, Some(spec.url))
    \/ IsCurrent(spec) /\ SomeUrlHasPrefix(urls, spec.series.nightlyUrl)
    \/ IsCurrent(spec) /\ SomeUrlHasPrefix(urls, spec.series.releaseUrl)

\* C4: isRelevantSpec(spec, urls) is truthy exactly when some URL starts with
\* the spec's nightly, release or canonical URL, or the spec is the current
\* specification of its series and some URL starts with the series' nightly
\* or release endpoint; in particular it is truthy on [spec.url],
\* [spec.nightly.url] and [spec.release.url], and falsy on an empty list.
C4_Relevance ==
    rPc = "done" =>
        /\ Truthy(rResult) <=> Relevant(rSpec, rUrls)
        /\ rUrls = <<>> => ~Truthy(rResult)
        /\ rUrls = <<rSpec.url>> => Truthy(rResult)
        /\ (rSpec.nightly.present /\ rUrls = <<rSpec.nightly.val.url>>) => Truthy(rResult)
        /\ (rSpec.release.present /\ rUrls = <<rSpec.release.val.url>>) => Truthy(rResult)

\* A specification that is not current in its series, matched by none of its
\* own URLs although a URL starts with the series' nightly endpoint: falsy.
C4_Witness ==
    /\ rPc = "done"
    /\ ~IsCurrent(rSpec)
    /\ SomeUrlHasPrefix(rUrls, rSpec.series.nightlyUrl)
    /\ ~rSpec.nightly.present
    /\ Len(rUrls) = 2
    /\ ~Truthy(rResult)

\* Every segment of the key names a child of the node reached so far.
RECURSIVE SegmentsExist(_, _, _)
SegmentsExist(segs, i, n) ==
    i > Len(segs) \/
        /\ Append(n, segs[i]) \in DOMAIN bcd
        /\ SegmentsExist(segs, i + 1, Append(n, segs[i]))

\* C8: whatever the memoization map holds, getBcdKey(key) throws MissingKey
\* when some segment of the key does not exist in the tree, and
\* getBcdKey(key, {support: true}) throws NoCompatData whenever the node it
\* resolves carries no compat record; it never returns an absent record.
C8_ResolveFails ==
    gResult.kind # "none" =>
        /\ ~SegmentsExist(Split(gKey), 1, <<>>) => gResult.kind = "MissingKey"
        /\ gResult.kind # "undefined"
        /\ (gSupport /\ gResult.kind # "MissingKey"
               /\ ~CompatOf(Walk(Split(gKey), 1, <<>>).node).present)
              => gResult.kind = "NoCompatData"

\* The compat record of the key at position i of the key list.
KeyCompat(keys, i) == CompatOf(Walk(Split(keys[i]), 1, <<>>).node).val

\* The support statement that counts for a browser: the entry itself, or the
\* first statement of an array.
FirstStatement(compat, b) == compat.support[b].sts[1]

\* The key has an entry for the browser, with a version and neither partial
\* nor behind a flag.
Qualifies(compat, b) ==
    /\ compat.support[b].kind # "none"
    /\ FirstStatement(compat, b).version_added.present
    /\ ~FirstStatement(compat, b).partial_implementation
    /\ ~FirstStatement(compat, b).flags

Roster == {baselineBrowsers[j] : j \in 1..Len(baselineBrowsers)}

\* C9: a roster browser is in the map returned by getBrowserSupport exactly
\* when the key list is not empty and every key qualifies for that browser,
\* whatever the order of the keys; no other browser is in the map.
C9_Presence ==
    sResult.kind # "none" =>
        /\ sResult.kind = "ok"
        /\ DOMAIN sResult.support \subseteq Roster
        /\ \A b \in Roster :
              b \in DOMAIN sResult.support <=>
                  /\ sKeys # <<>>
                  /\ \A i \in 1..Len(sKeys) : Qualifies(KeyCompat(sKeys, i), b)

\* Three keys, the last of which disqualifies chrome_android while the first
\* two qualify: the browser is dropped, while chrome is retained.
C9_Witness ==
    /\ sResult.kind = "ok"
    /\ Len(sKeys) = 3
    /\ Qualifies(KeyCompat(sKeys, 1), "chrome_android")
    /\ Qualifies(KeyCompat(sKeys, 2), "chrome_android")
    /\ ~Qualifies(KeyCompat(sKeys, 3), "chrome_android")
    /\ "chrome_android" \notin DOMAIN sResult.support
    /\ "chrome" \in DOMAIN sResult.support

\* The number spelled by a string of decimal digits.
RECURSIVE Num(_)
Num(v) ==
    IF Len(v) = 0 THEN 0
    ELSE 10 * Num(SubSeq(v, 1, Len(v) - 1)) + (CharCode(v[Len(v)]) - 48)

\* C10: the value retained for a browser is the highest version number among
\* the versions in which the supplied keys introduce its support.
C10_MaxVersion ==
    sResult.kind = "ok" =>
        \A b \in DOMAIN sResult.support :
            /\ \E i \in 1..Len(sKeys) :
                  sResult.support[b] = FirstStatement(KeyCompat(sKeys, i), b).version_added.val
            /\ \A i \in 1..Len(sKeys) :
                  Num(sResult.support[b]) >=
                      Num(FirstStatement(KeyCompat(sKeys, i), b).version_added.val)

(***************************************************************************)
(* Claims on analyzeFeatures                                               *)
(***************************************************************************)
Anomalies == {"lateIncubation", "lateWorkingDrafts", "interoperableStatuses"}
Buckets == {"high", "low", "false"}

\* The feature taken last went through the loop body without an error.
Processed == pc \in {"loop", "done"} /\ idx >= 1 /\ desc.status.present

\* Number of records of feature f and specification name in a list.
Count(list, f, name) ==
    Cardinality({i \in 1..Len(list) :
                    list[i].feature = f /\ list[i].spec.shortname = name})

RecordsOf(anomaly, bucket, f) ==
    {i \in 1..Len(worthChecking[anomaly][bucket]) :
        worthChecking[anomaly][bucket][i].feature = f}

\* The node named by a key string.
NodeOfKey(key) == CHOOSE n \in DOMAIN bcd : KeyOf(n) = key

\* The reference URLs of a key, as a list; none without spec_url.
RefUrlsOf(key) ==
    LET c == CompatOf(NodeOfKey(key)).val
    IN  IF ~c.spec_url.present THEN <<>>
        ELSE IF c.spec_url.val.isArray THEN c.spec_url.val.list
        ELSE <<c.spec_url.val.str>>

KeyMatches(spec, key) == Relevant(spec, RefUrlsOf(key))

\* The feature is analysed through its compat keys.
ByKeys(d) == ~useSpecsProperty /\ d.compat_features.present

\* The URLs of the `spec` property of a feature, as a list.
SpecUrlsOf(d) ==
    IF d.spec.val.isArray THEN d.spec.val.list ELSE <<d.spec.val.str>>

\* The catalog specification number j is linked to feature d.
LinkedTo(d, j) ==
    IF ByKeys(d)
    THEN \E i \in 1..Len(d.compat_features.val) :
            KeyMatches(Catalog[j], d.compat_features.val[i])
    ELSE d.spec.present /\ Relevant(Catalog[j], SpecUrlsOf(d))

LinkedW3C(d) ==
    {j \in 1..Len(Catalog) : Catalog[j].organization = "W3C" /\ LinkedTo(d, j)}

\* The engine behind each browser.
EngineOf(browser) ==
    CASE browser \in {"chrome", "chrome_android", "edge"} -> "chromium"
      [] browser \in {"firefox", "firefox_android"} -> "gecko"
      [] browser \in {"safari", "safari_ios"} -> "webkit"
      [] OTHER -> browser

SingleCodebase(d) ==
    /\ d.status.val.baseline = "false"
    /\ Cardinality({EngineOf(b) : b \in d.status.val.support}) <= 1

ReachesStep2(d) ==
    \/ d.status.val.baseline \in {"low", "high"}
    \/ /\ d.status.val.baseline = "false"
       /\ Cardinality({EngineOf(b) : b \in d.status.val.support}) >= 2

HasInteroperableRelease(j) ==
    /\ Catalog[j].release.present
    /\ Catalog[j].release.val.status \in {"Recommendation", "Proposed Recommendation"}

HasStableRelease(j) ==
    /\ Catalog[j].release.present
    /\ Catalog[j].release.val.status \in
          {"Candidate Recommendation Snapshot", "Candidate Recommendation Draft",
           "Proposed Recommendation", "Recommendation"}

\* C1: a feature of baseline false whose support collapses to at most one
\* codebase gets no record in lateIncubation or lateWorkingDrafts, and in
\* interoperableStatuses exactly one record, in bucket false, per linked W3C
\* specification released as Recommendation or Proposed Recommendation, and
\* none for any other specification.
C1_SingleCodebase ==
    (Processed /\ SingleCodebase(desc)) =>
        /\ \A b \in Buckets :
              /\ RecordsOf("lateIncubation", b, idx) = {}
              /\ RecordsOf("lateWorkingDrafts", b, idx) = {}
        /\ RecordsOf("interoperableStatuses", "low", idx) = {}
        /\ RecordsOf("interoperableStatuses", "high", idx) = {}
        /\ \A j \in 1..Len(Catalog) :
              Count(worthChecking.interoperableStatuses.false, idx,
                    Catalog[j].shortname)
                = IF j \in LinkedW3C(desc) /\ HasInteroperableRelease(j)
                  THEN 1 ELSE 0

\* A single-codebase feature linked to a Proposed Recommendation, which is
\* recorded, and to a specification in incubation, which is not.
C1_Witness ==
    /\ Processed /\ SingleCodebase(desc)
    /\ desc.status.val.support # {}
    /\ \E j \in LinkedW3C(desc) : HasInteroperableRelease(j)
    /\ \E j \in LinkedW3C(desc) : ~Catalog[j].release.present
    /\ RecordsOf("interoperableStatuses", "false", idx) # {}

\* C2: for a feature that reaches step 2, each linked W3C specification
\* without release gets exactly one lateIncubation record, each one with a
\* release outside the stable statuses exactly one lateWorkingDrafts record,
\* a stable one neither, all in the bucket of the feature's baseline.
C2_Step2 ==
    (Processed /\ ReachesStep2(desc)) =>
        /\ \A b \in Buckets \ {desc.status.val.baseline} :
              /\ RecordsOf("lateIncubation", b, idx) = {}
              /\ RecordsOf("lateWorkingDrafts", b, idx) = {}
        /\ \A j \in 1..Len(Catalog) :
              /\ Count(worthChecking.lateIncubation[desc.status.val.baseline],
                       idx, Catalog[j].shortname)
                   = IF j \in LinkedW3C(desc) /\ ~Catalog[j].release.present
                     THEN 1 ELSE 0
              /\ Count(worthChecking.lateWorkingDrafts[desc.status.val.baseline],
                       idx, Catalog[j].shortname)
                   = IF /\ j \in LinkedW3C(desc)
                        /\ Catalog[j].release.present
                        /\ ~HasStableRelease(j)
                     THEN 1 ELSE 0

\* A feature supported by two codebases, linked to a specification in
\* incubation and to a Candidate Recommendation Draft: one record only.
C2_Witness ==
    /\ Processed /\ ReachesStep2(desc)
    /\ desc.status.val.baseline = "false"
    /\ \E j \in LinkedW3C(desc) : ~Catalog[j].release.present
    /\ \E j \in LinkedW3C(desc) :
          Catalog[j].release.present /\ HasStableRelease(j)
    /\ Cardinality(RecordsOf("lateIncubation", "false", idx)) = 1
    /\ RecordsOf("lateWorkingDrafts", "false", idx) = {}

\* C3: every record of interoperableStatuses is in bucket false and belongs
\* to a feature of baseline false supported by at most one codebase; the
\* buckets low and high of that category stay empty.
C3_InteroperableOnlyFalse ==
    /\ worthChecking.interoperableStatuses.low = <<>>
    /\ worthChecking.interoperableStatuses.high = <<>>
    /\ (Processed /\ RecordsOf("interoperableStatuses", "false", idx) # {})
          => SingleCodebase(desc)

\* The keys of a list that match a specification, in the order of the list.
MatchingKeys(spec, keys) == SelectSeq(keys, LAMBDA k : KeyMatches(spec, k))

\* C5: for a feature analysed through its compat keys, a catalog
\* specification is linked exactly when one of the keys has reference URLs
\* it is relevant to, and its compat_features are exactly the matching keys,
\* each once, in the order of the feature's list.
C5_Provenance ==
    (Processed /\ ByKeys(desc)) =>
        /\ \A j \in 1..Len(Catalog) :
              Cardinality({i \in 1..Len(specs) :
                              specs[i].shortname = Catalog[j].shortname})
                = IF LinkedTo(desc, j) THEN 1 ELSE 0
        /\ \A i \in 1..Len(specs) :
              /\ specs[i].compat_features.present
              /\ \E j \in 1..Len(Catalog) :
                    /\ specs[i].shortname = Catalog[j].shortname
                    /\ specs[i].compat_features.val
                         = MatchingKeys(Catalog[j], desc.compat_features.val)

\* One key in the provenance of two specifications and one specification
\* with two keys, in the order of the feature's list.
C5_Witness ==
    /\ Processed /\ ByKeys(desc)
    /\ \E i, k \in 1..Len(specs) :
          /\ i # k
          /\ specs[i].compat_features.val = specs[k].compat_features.val
    /\ \E i \in 1..Len(specs) :
          /\ Len(specs[i].compat_features.val) = 2
          /\ specs[i].compat_features.val[1] = desc.compat_features.val[2]
          /\ specs[i].compat_features.val[2] = desc.compat_features.val[3]

\* The feature declares a non-empty `spec` property and no specification of
\* the catalog is relevant to its URLs.
DeclaresUnknownSpec(d) ==
    /\ d.status.present
    /\ d.spec.present
    /\ Len(SpecUrlsOf(d)) > 0
    /\ \A j \in 1..Len(Catalog) : ~Relevant(Catalog[j], SpecUrlsOf(d))

NoRecordFrom(f) ==
    \A a \in Anomalies, b \in Buckets :
        \A i \in 1..Len(worthChecking[a][b]) : worthChecking[a][b][i].feature < f

\* C6 as stated: every feature with a status and a non-empty `spec` property
\* that no catalog specification is relevant to aborts the run with
\* NoSpecLinked, and no record of it or of a later feature is kept.
C6_NoSpecLinkedAlways ==
    (idx >= 1 /\ DeclaresUnknownSpec(desc)) =>
        /\ pc = "aborted"
        /\ error = "NoSpecLinked"
        /\ NoRecordFrom(idx)

\* C6, amended: the same for the features that are analysed through their
\* `spec` property, that is without compat keys or under useSpecsProperty.
C6_NoSpecLinked ==
    (idx >= 1 /\ DeclaresUnknownSpec(desc) /\ ~ByKeys(desc)) =>
        /\ pc = "aborted"
        /\ error = "NoSpecLinked"
        /\ NoRecordFrom(idx)

\* The second feature aborts the run after the first one was recorded.
C6_Witness ==
    /\ idx = 2
    /\ DeclaresUnknownSpec(desc) /\ ~ByKeys(desc)
    /\ pc = "aborted"
    /\ \E a \in Anomalies, b \in Buckets : RecordsOf(a, b, 1) # {}

OrganizationOf(name) ==
    Catalog[CHOOSE j \in 1..Len(Catalog) : Catalog[j].shortname = name].organization

\* Every key of the feature resolves to a node with a compat record.
KeysResolve(d) ==
    \A i \in 1..Len(d.compat_features.val) :
        /\ \E n \in DOMAIN bcd : KeyOf(n) = d.compat_features.val[i]
        /\ CompatOf(NodeOfKey(d.compat_features.val[i])).present

\* Some specification is linked to the feature, and none of them is W3C's.
LinkedOnlyElsewhere(d) ==
    /\ d.status.present
    /\ ByKeys(d) => KeysResolve(d)
    /\ \E j \in 1..Len(Catalog) : LinkedTo(d, j)
    /\ LinkedW3C(d) = {}

\* C7: every record refers to a specification of W3C; a feature whose linked
\* specifications all belong to other organizations, or that is left with
\* no linked specification, gets no record and raises no error.
C7_OnlyW3C ==
    /\ \A a \in Anomalies, b \in Buckets :
          \A i \in 1..Len(worthChecking[a][b]) :
              OrganizationOf(worthChecking[a][b][i].spec.shortname) = "W3C"
    /\ (idx >= 1 /\ LinkedOnlyElsewhere(desc)) =>
          /\ pc # "aborted" /\ error = "none"
          /\ \A a \in Anomalies, b \in Buckets : RecordsOf(a, b, idx) = {}
    /\ (Processed /\ \A i \in 1..Len(specs) : specs[i].organization # "W3C") =>
          \A a \in Anomalies, b \in Buckets : RecordsOf(a, b, idx) = {}

\* A feature linked to a WHATWG specification only is passed over, and the
\* run goes on to the next feature.
C7_Witness ==
    /\ idx = 2 /\ pc = "done"
    /\ LinkedOnlyElsewhere(desc)
    /\ Len(specs) = 1
    /\ \E a \in Anomalies, b \in Buckets : RecordsOf(a, b, 1) # {}

(***************************************************************************)
(* Claims on analyzeBCD                                                    *)
(***************************************************************************)
\* The W3C specifications of the catalog, in catalog order.
W3CCatalog == SelectSeq(Catalog, LAMBDA spec : spec.organization = "W3C")

\* The memoized keys that carry a compat record whose reference URLs the
\* specification is relevant to.
ReferencingKeys(spec) ==
    {k \in DOMAIN bcdKeys :
        /\ CompatOf(NodeOfKey(k)).present
        /\ KeyMatches(spec, k)}

\* The roster browsers for which every referencing key qualifies.
Retained(spec) ==
    {b \in Roster :
        \A k \in ReferencingKeys(spec) : Qualifies(CompatOf(NodeOfKey(k)).val, b)}

PseudoFeaturesOf(name) ==
    {i \in 1..Len(specFeatures) : specFeatures[i].shortname = name}

\* C11: analyzeBCD creates a pseudo-feature for a W3C specification exactly
\* when some memoized compat key references it and some roster browser is
\* retained for these keys; its baseline is 'low' exactly when all seven
\* roster browsers are retained and false otherwise, never 'high'; no other
\* specification gets a pseudo-feature.
C11_PseudoFeature ==
    /\ \A i \in 1..Len(specFeatures) :
          /\ specFeatures[i].status.baseline \in {"low", "false"}
          /\ \E j \in 1..Len(W3CCatalog) :
                W3CCatalog[j].shortname = specFeatures[i].shortname
    /\ abPc \in {"specs", "done"} =>
          \A j \in 1..abIdx :
              /\ Cardinality(PseudoFeaturesOf(W3CCatalog[j].shortname))
                   = IF /\ ReferencingKeys(W3CCatalog[j]) # {}
                        /\ Retained(W3CCatalog[j]) # {}
                     THEN 1 ELSE 0
              /\ \A i \in PseudoFeaturesOf(W3CCatalog[j].shortname) :
                    /\ DOMAIN specFeatures[i].status.support = Retained(W3CCatalog[j])
                    /\ specFeatures[i].status.baseline = "low"
                         <=> Cardinality(Retained(W3CCatalog[j])) = 7
                    /\ Cardinality(Retained(W3CCatalog[j])) <= 6
                         => specFeatures[i].status.baseline = "false"

\* All W3C specifications were taken: one pseudo-feature is 'low' with seven
\* browsers, one is false with six, one specification has keys and no
\* browser retained, and one has no key.
C11_Witness ==
    /\ abPc = "done"
    /\ \E i \in 1..Len(specFeatures) :
          /\ specFeatures[i].status.baseline = "low"
          /\ Cardinality(DOMAIN specFeatures[i].status.support) = 7
    /\ \E i \in 1..Len(specFeatures) :
          /\ specFeatures[i].status.baseline = "false"
          /\ Cardinality(DOMAIN specFeatures[i].status.support) = 6
    /\ \E j \in 1..Len(W3CCatalog) :
          /\ ReferencingKeys(W3CCatalog[j]) # {}
          /\ PseudoFeaturesOf(W3CCatalog[j].shortname) = {}
    /\ \E j \in 1..Len(W3CCatalog) :
          /\ ReferencingKeys(W3CCatalog[j]) = {}
          /\ PseudoFeaturesOf(W3CCatalog[j].shortname) = {}

(***************************************************************************)
(* Claims on the codebases                                                 *)
(***************************************************************************)
\* The codebase that each browser identifier stands for.
CodebaseName(browser) ==
    CASE browser \in {"chrome", "chrome_android", "edge"} -> "chrome"
      [] browser \in {"firefox", "firefox_android"} -> "firefox"
      [] browser \in {"safari", "safari_ios"} -> "safari"
      [] OTHER -> browser

\* c is what comes before the first underscore of s, or s without underscore.
BeforeUnderscore(c, s) ==
    /\ IsPrefix(c, s)
    /\ \A i \in 1..Len(c) : c[i] # "_"
    /\ Len(c) = Len(s) \/ s[Len(c) + 1] = "_"

\* C12: the codebases of a support map are 'chrome' for edge and, for every
\* other browser, what precedes the first underscore of its identifier;
\* {safari, safari_ios} and {edge, chrome} count one codebase, {chrome,
\* firefox} two, and no map counts more codebases than browsers.
C12_Codebases ==
    cCodebases.present =>
        /\ cCodebases.val = {Spell(CodebaseName(b)) : b \in cSupport}
        /\ \A b \in cSupport \ {"edge"} :
              BeforeUnderscore(Spell(CodebaseName(b)), Spell(b))
        /\ "edge" \in cSupport => Spell("chrome") \in cCodebases.val
        /\ cSupport = {"safari", "safari_ios"} => Cardinality(cCodebases.val) = 1
        /\ cSupport = {"edge", "chrome"} => Cardinality(cCodebases.val) = 1
        /\ cSupport = {"chrome", "firefox"} => Cardinality(cCodebases.val) = 2
        /\ Cardinality(cCodebases.val) <= Cardinality(cSupport)

\* Edge, a mobile variant and a desktop browser: two codebases for three
\* browsers.
C12_Witness ==
    /\ cCodebases.present
    /\ cSupport = {"edge", "chrome_android", "safari"}
    /\ cCodebases.val = {Spell("chrome"), Spell("safari")}

(***************************************************************************)
(* Claims on the traversal                                                 *)
(***************************************************************************)
\* The paths below the root categories.
TraversedPaths == {KeyOf(n) : n \in {m \in DOMAIN bcd : Len(m) >= 2}}

LastSegment(key) == Split(key)[Len(Split(key))]

\* C13: every path that traverseBCDFeatures yields resolves through getBcdKey
\* to the node it names, without MissingKey, and is reproduced by splitting
\* it on '.' and joining the segments with '.'; no path ends in '__compat';
\* no path is yielded twice, so that the traversal ends after at most as many
\* yields as the tree has paths, and it ends without error once every path
\* below the root categories was yielded.
C13_Traversal ==
    /\ tYielded # <<>> => tResolved = "node"
    /\ \A i \in 1..Len(tYielded) :
          /\ SegmentsExist(Split(tYielded[i]), 1, <<>>)
          /\ tYielded[i] \in DOMAIN bcdKeys
          /\ KeyOf(bcdKeys[tYielded[i]]) = tYielded[i]
          /\ KeyOf(Split(tYielded[i])) = tYielded[i]
          /\ LastSegment(tYielded[i]) # CompatProp
          /\ \A j \in 1..Len(tYielded) : tYielded[j] = tYielded[i] => j = i
    /\ abPc # "aborted"
    /\ Len(tYielded) <= Cardinality(TraversedPaths)
    /\ abPc # "traverse" => {tYielded[i] : i \in 1..Len(tYielded)} = TraversedPaths

\* The traversal is over after it yielded a path of three segments below a
\* node that carries a compat record.
C13_Witness ==
    /\ abPc = "specs"
    /\ \E i \in 1..Len(tYielded) :
          /\ Len(Split(tYielded[i])) = 3
          /\ CompatOf(SubSeq(Split(tYielded[i]), 1, 2)).present
    /\ tResolved = "node"

(***************************************************************************)
(* Claims on the memoization map                                           *)
(***************************************************************************)
\* Every entry of bcdKeys maps a path of the tree to the node that the
\* segments of the path lead to from the root.
EntriesAreNodes ==
    \A k \in DOMAIN bcdKeys :
        /\ SegmentsExist(Split(k), 1, <<>>)
        /\ bcdKeys[k] = NodeOfKey(k)

\* A call served from bcdKeys handed back what the walk from the root hands
\* back, whenever that walk hands back a node or a compat record.
MemoizedLookupAgrees ==
    (gCached /\ (gSupport => CompatOf(NodeOfKey(gKey)).present)) =>
        /\ gResult.kind = IF gSupport THEN "compat" ELSE "node"
        /\ gResult.node = NodeOfKey(gKey)

\* C14: after any sequence of getBcdKey calls every entry of bcdKeys maps its
\* path to the node reached by walking the path's segments from the root, a
\* memoized lookup returns the node of the un-memoized walk, a call served
\* from the map writes nothing, and no entry is overwritten or removed.
C14_Memo ==
    [][/\ EntriesAreNodes'
       /\ MemoizedLookupAgrees'
       /\ gCached' => bcdKeys' = bcdKeys
       /\ \A k \in DOMAIN bcdKeys :
             k \in DOMAIN bcdKeys' /\ bcdKeys'[k] = bcdKeys[k]]_vars

\* A path of three segments resolved again, from the map, next to other
\* entries.
C14_Witness ==
    /\ gCached
    /\ gSupport
    /\ gResult.kind = "compat"
    /\ Len(Split(gKey)) = 3
    /\ Cardinality(DOMAIN bcdKeys) >= 3

(***************************************************************************)
(* Claims on missing properties                                            *)
(***************************************************************************)
\* One of the optional properties of the specification is missing.
MissesOptional(spec) ==
    \/ ~spec.nightly.present
    \/ ~spec.release.present
    \/ ~spec.series.nightlyUrl.present
    \/ ~spec.series.releaseUrl.present

\* The URLs that the properties present in the specification give to
\* compare with: a missing property gives none.
PresentUrls(spec) ==
    {spec.url}
    \cup (IF spec.nightly.present THEN {spec.nightly.val.url} ELSE {})
    \cup (IF spec.release.present THEN {spec.release.val.url} ELSE {})
    \cup (IF IsCurrent(spec) /\ spec.series.nightlyUrl.present
          THEN {spec.series.nightlyUrl.val} ELSE {})
    \cup (IF IsCurrent(spec) /\ spec.series.releaseUrl.present
          THEN {spec.series.releaseUrl.val} ELSE {})

\* C15: on a specification record with a missing nightly reference, release
\* reference, series nightly endpoint or series release endpoint,
\* isRelevantSpec returns a value, which is truthy exactly when a URL of the
\* list starts with a URL of a property that is present, and is then such a
\* URL of the list: the missing property matches nothing.
C15_MissingOptional ==
    (rPc = "done" /\ MissesOptional(rSpec)) =>
        /\ rResult \in {JsUndefined, JsFalse} \cup {JsString(rUrls[i]) : i \in 1..Len(rUrls)}
        /\ Truthy(rResult) <=>
              \E i \in 1..Len(rUrls), p \in PresentUrls(rSpec) : IsPrefix(p, rUrls[i])
        /\ Truthy(rResult) =>
              \E p \in PresentUrls(rSpec) : IsPrefix(p, rResult.val)

\* All four optional properties are missing and the second URL of the list
\* starts with the canonical URL of the specification.
C15_Witness ==
    /\ rPc = "done"
    /\ ~rSpec.nightly.present /\ ~rSpec.release.present
    /\ ~rSpec.series.nightlyUrl.present /\ ~rSpec.series.releaseUrl.present
    /\ Len(rUrls) = 2
    /\ ~IsPrefix(rSpec.url, rUrls[1])
    /\ rResult = JsString(rUrls[2])

(***************************************************************************)
(* Claims on the copies made by completeWithCompatFeatures                 *)
(***************************************************************************)
\* Some key of the feature references the catalog specification number j.
SomeKeyMatches(d, j) ==
    \E i \in 1..Len(d.compat_features.val) :
        KeyMatches(Catalog[j], d.compat_features.val[i])

\* The keys of the feature taken last.
KeysOf(d) ==
    IF d.compat_features.present
    THEN {d.compat_features.val[i] : i \in 1..Len(d.compat_features.val)}
    ELSE {}

\* The records of the feature taken last name keys of that feature only.
OwnKeysOnly ==
    \A a \in Anomalies, b \in Buckets :
        \A i \in RecordsOf(a, b, idx) :
            worthChecking[a][b][i].spec.compat_features.present =>
                \A k \in 1..Len(worthChecking[a][b][i].spec.compat_features.val) :
                    worthChecking[a][b][i].spec.compat_features.val[k] \in KeysOf(desc)

\* C16: completeWithCompatFeatures returns a copy of the spec that carries
\* compat_features when a key matches and the spec itself, unchanged,
\* otherwise; the records of the catalog are never modified and never carry
\* compat_features, and the records of a feature name keys of that feature
\* only.
C16_CopyOnWrite ==
    /\ webSpecs = Catalog
    /\ \A j \in 1..Len(webSpecs) : ~webSpecs[j].compat_features.present
    /\ (Processed /\ ByKeys(desc)) =>
          /\ Len(mapped) = Len(Catalog)
          /\ \A j \in 1..Len(Catalog) :
                IF SomeKeyMatches(desc, j)
                THEN /\ mapped[j].isCopy
                     /\ mapped[j].spec.compat_features.present
                     /\ [mapped[j].spec EXCEPT !.compat_features = Absent] = Catalog[j]
                ELSE /\ ~mapped[j].isCopy
                     /\ mapped[j].spec = Catalog[j]
    /\ Processed => OwnKeysOnly

\* Two features that reference one specification through their keys: the
\* record of each lists the keys of that feature, in its own order.
C16_Witness ==
    /\ idx = 2 /\ Processed /\ ByKeys(desc)
    /\ \E a \in Anomalies, b, c \in Buckets :
          \E i \in RecordsOf(a, b, 1), k \in RecordsOf(a, c, 2) :
              /\ worthChecking[a][b][i].spec.shortname = worthChecking[a][c][k].spec.shortname
              /\ Len(worthChecking[a][b][i].spec.compat_features.val) = 2
              /\ Len(worthChecking[a][c][k].spec.compat_features.val) = 2
              /\ worthChecking[a][b][i].spec.compat_features.val
                    # worthChecking[a][c][k].spec.compat_features.val
    /\ \E j \in 1..Len(Catalog) : SomeKeyMatches(desc, j)
    /\ \E j \in 1..Len(Catalog) : ~SomeKeyMatches(desc, j)

====
